---- MODULE Spec2Model ----
(***************************************************************************)
(* StrSplit (strsplit_lifetimes/src/lib.rs): a lazy splitter over a UTF-8  *)
(* haystack, generic over a Delimiter (a literal &str or a char).          *)
(*                                                                         *)
(* A str is modelled as the sequence of its UTF-8 bytes; a &str that       *)
(* points into the haystack is a view [off, len] (pointer and length).     *)
(* Byte offsets are 0-based as in the source; sequences are 1-based.       *)
(***************************************************************************)
EXTENDS Integers, Sequences, FiniteSets, TLC

\* ---------------------------------------------------------------- bounds
MaxLen == 4       \* codepoints in a haystack
MaxPatLen == 2    \* codepoints in a literal delimiter
MaxCalls == 7     \* calls of next() on the splitter
MaxToks == 3      \* tokens joined into a haystack
MaxTokLen == 1    \* codepoints in a token
MaxCustomLen == 2   \* codepoints in a haystack split by a custom Delimiter
MaxCustomCalls == 2 \* calls of next() on a splitter with a custom Delimiter
MaxPeerLen == 2     \* codepoints in a haystack two splitters share

\* 'a' (hex 61), U+00A9 (C2 A9) and U+00E9 (C3 A9): one-byte and two-byte
\* codepoints, the two-byte ones sharing their continuation byte.
CodePoints == {97, 169, 233}

CpSeqs(n) == UNION {[1..k -> CodePoints] : k \in 0..n}

\* ------------------------------------------------------------ Option<T>
None == [some |-> FALSE]
Some(v) == [some |-> TRUE, val |-> v]

\* ------------------------------------------------------- UTF-8 and str
\* char::len_utf8
len_utf8(c) == IF c < 128 THEN 1 ELSE IF c < 2048 THEN 2 ELSE IF c < 65536 THEN 3 ELSE 4

\* the UTF-8 bytes of one char
encode_utf8(c) ==
    IF c < 128 THEN <<c>>
    ELSE IF c < 2048 THEN <<192 + (c \div 64), 128 + (c % 64)>>
    ELSE IF c < 65536 THEN <<224 + (c \div 4096), 128 + ((c \div 64) % 64), 128 + (c % 64)>>
    ELSE <<240 + (c \div 262144), 128 + ((c \div 4096) % 64),
           128 + ((c \div 64) % 64), 128 + (c % 64)>>

\* the bytes of a string literal, given its chars
RECURSIVE str_bytes(_)
str_bytes(cs) == IF cs = <<>> THEN <<>> ELSE encode_utf8(Head(cs)) \o str_bytes(Tail(cs))

\* str::char_indices from byte offset i on: the (byte offset, char) pairs
RECURSIVE char_indices_from(_, _)
char_indices_from(s, i) ==
    IF i >= Len(s) THEN <<>>
    ELSE LET b == s[i + 1]
             w == IF b < 128 THEN 1 ELSE IF b < 224 THEN 2 ELSE IF b < 240 THEN 3 ELSE 4
             c == IF w = 1 THEN b
                  ELSE IF w = 2 THEN (b - 192) * 64 + (s[i + 2] - 128)
                  ELSE IF w = 3 THEN (b - 224) * 4096 + (s[i + 2] - 128) * 64 + (s[i + 3] - 128)
                  ELSE (b - 240) * 262144 + (s[i + 2] - 128) * 4096
                       + (s[i + 3] - 128) * 64 + (s[i + 4] - 128)
         IN  <<<<i, c>>>> \o char_indices_from(s, i + w)

char_indices(s) == char_indices_from(s, 0)

\* str::find(&str): the byte index of the first occurrence of pat in s
str_find(s, pat) ==
    LET hits == {i \in 0..(Len(s) - Len(pat)) : SubSeq(s, i + 1, i + Len(pat)) = pat}
    IN  IF hits = {} THEN None
        ELSE Some(CHOOSE i \in hits : \A j \in hits : i <= j)

\* str::is_char_boundary
is_char_boundary(s, i) ==
    \/ i = 0
    \/ i = Len(s)
    \/ i < Len(s) /\ ~(s[i + 1] >= 128 /\ s[i + 1] < 192)

\* the bytes a view denotes in its buffer
view_str(buf, v) == SubSeq(buf, v.off + 1, v.off + v.len)

\* ------------------------------------------------------------ Delimiter
StrDelim(pat) == [kind |-> "str", pat |-> pat]
CharDelim(c) == [kind |-> "char", c |-> c]

\* a caller's own impl of Delimiter: any code, so find_next may return any
\* Option<(usize, usize)>; res is what it returns on the call at hand
CustomDelim == [kind |-> "custom"]
CustomAnswering(res) == [kind |-> "custom", res |-> res]

\* find_next for &str on the last occurrence (rfind) in place of the first
find_next_str_last(self, s) ==
    LET hits == {i \in 0..(Len(s) - Len(self)) : SubSeq(s, i + 1, i + Len(self)) = self}
    IN  IF hits = {} THEN None
        ELSE LET i == CHOOSE x \in hits : \A y \in hits : x >= y
             IN  Some(<<i, i + Len(self)>>)

\* find_next for &str with a delimiter width of one byte
find_next_str_one_byte(self, s) ==
    LET r == str_find(s, self)
    IN  IF r.some THEN Some(<<r.val, r.val + 1>>) ELSE None

\* impl Delimiter for &str
find_next_str(self, s) ==
    LET r == str_find(s, self)
    IN  IF r.some THEN Some(<<r.val, r.val + Len(self)>>) ELSE None

\* find_next for char with the char's position in place of its byte offset
find_next_char_position(self, s) ==
    LET ci == char_indices(s)
        hits == {k \in 1..Len(ci) : ci[k][2] = self}
    IN  IF hits = {} THEN None
        ELSE LET k == CHOOSE x \in hits : \A y \in hits : x <= y
             IN  Some(<<k - 1, k - 1 + len_utf8(self)>>)

\* find_next for char with a delimiter width of one byte
find_next_char_one_byte(self, s) ==
    LET ci == char_indices(s)
        hits == {k \in 1..Len(ci) : ci[k][2] = self}
    IN  IF hits = {} THEN None
        ELSE LET k == CHOOSE x \in hits : \A y \in hits : x <= y
             IN  Some(<<ci[k][1], ci[k][1] + 1>>)

\* impl Delimiter for char
find_next_char(self, s) ==
    LET ci == char_indices(s)
        hits == {k \in 1..Len(ci) : ci[k][2] = self}
    IN  IF hits = {} THEN None
        ELSE LET k == CHOOSE x \in hits : \A y \in hits : x <= y
             IN  Some(<<ci[k][1], ci[k][1] + len_utf8(self)>>)

\* Delimiter::find_next, dispatched on the implementing type
find_next(d, s) ==
    IF d.kind = "str" THEN find_next_str(d.pat, s)
    ELSE IF d.kind = "char" THEN find_next_char(d.c, s)
    ELSE d.res

\* ------------------------------------------------------------- StrSplit
\* StrSplit::new
StrSplit_new(hay, d) == [remainder |-> Some([off |-> 0, len |-> Len(hay)]), delimiter |-> d]

\* the slices of next() with the remainder narrowed to the text before the
\* delimiter
split_at_keep_head(buf, self, delim_start, delim_end) ==
    LET remainder == self.remainder.val
        s == view_str(buf, remainder)
    IN  IF ~is_char_boundary(s, delim_start) \/ ~is_char_boundary(s, delim_end)
        THEN [self |-> self, ret |-> None, panic |-> TRUE]
        ELSE [self |-> [self EXCEPT !.remainder =
                           Some([off |-> remainder.off, len |-> delim_start])],
              ret |-> Some([off |-> remainder.off, len |-> delim_start]),
              panic |-> FALSE]

\* the slices of next() with only the first one checked
split_at_end_unchecked(buf, self, delim_start, delim_end) ==
    LET remainder == self.remainder.val
        s == view_str(buf, remainder)
    IN  IF ~is_char_boundary(s, delim_start)
        THEN [self |-> self, ret |-> None, panic |-> TRUE]
        ELSE [self |-> [self EXCEPT !.remainder =
                           Some([off |-> remainder.off + delim_end,
                                 len |-> remainder.len - delim_end])],
              ret |-> Some([off |-> remainder.off, len |-> delim_start]),
              panic |-> FALSE]

\* lines 77-79 of next(): the two slices of the remainder (each panics off a
\* char boundary or past the end), the narrowed remainder and the item
split_at(buf, self, delim_start, delim_end) ==
    LET remainder == self.remainder.val
        s == view_str(buf, remainder)
    IN  IF ~is_char_boundary(s, delim_start) \/ ~is_char_boundary(s, delim_end)
        THEN [self |-> self, ret |-> None, panic |-> TRUE]
        ELSE [self |-> [self EXCEPT !.remainder =
                           Some([off |-> remainder.off + delim_end,
                                 len |-> remainder.len - delim_end])],
              ret |-> Some([off |-> remainder.off, len |-> delim_start]),
              panic |-> FALSE]

\* next() that narrows the remainder to delim_start.. (keeps the delimiter)
StrSplit_next_keep_delimiter(buf, self) ==
    IF self.remainder.some THEN
        LET m == find_next(self.delimiter, view_str(buf, self.remainder.val))
        IN  IF m.some THEN IF is_char_boundary(view_str(buf, self.remainder.val), m.val[1])
                          THEN [self |-> [self EXCEPT !.remainder =
                                    Some([off |-> self.remainder.val.off + m.val[1],
                                          len |-> self.remainder.val.len - m.val[1]])],
                                ret |-> Some([off |-> self.remainder.val.off, len |-> m.val[1]]),
                                panic |-> FALSE]
                          ELSE [self |-> self, ret |-> None, panic |-> TRUE]
            ELSE [self |-> [self EXCEPT !.remainder = None], ret |-> self.remainder,
                  panic |-> FALSE]
    ELSE [self |-> self, ret |-> None, panic |-> FALSE]

\* next() that returns None as soon as no delimiter is left (drops the tail)
StrSplit_next_drop_tail(buf, self) ==
    IF self.remainder.some THEN
        LET m == find_next(self.delimiter, view_str(buf, self.remainder.val))
        IN  IF m.some THEN split_at(buf, self, m.val[1], m.val[2])
            ELSE [self |-> [self EXCEPT !.remainder = None], ret |-> None, panic |-> FALSE]
    ELSE [self |-> self, ret |-> None, panic |-> FALSE]

\* next() that returns the remainder without take() when no delimiter is left
StrSplit_next_no_take(buf, self) ==
    IF self.remainder.some THEN
        LET m == find_next(self.delimiter, view_str(buf, self.remainder.val))
        IN  IF m.some THEN split_at(buf, self, m.val[1], m.val[2])
            ELSE [self |-> self, ret |-> self.remainder, panic |-> FALSE]
    ELSE [self |-> self, ret |-> None, panic |-> FALSE]

\* next() that yields an empty item, and holds it, once the remainder is None
StrSplit_next_empty_after_end(buf, self) ==
    IF self.remainder.some THEN
        LET m == find_next(self.delimiter, view_str(buf, self.remainder.val))
        IN  IF m.some THEN split_at(buf, self, m.val[1], m.val[2])
            ELSE [self |-> [self EXCEPT !.remainder = None], ret |-> self.remainder,
                  panic |-> FALSE]
    ELSE [self |-> [self EXCEPT !.remainder = Some([off |-> Len(buf), len |-> 0])],
          ret |-> Some([off |-> Len(buf), len |-> 0]), panic |-> FALSE]

\* Iterator::next for StrSplit: the splitter after the call, the returned
\* Option, and whether a slice of the remainder panicked.
StrSplit_next(buf, self) ==
    IF self.remainder.some THEN
        LET remainder == self.remainder.val
            m == find_next(self.delimiter, view_str(buf, remainder))
        IN  IF m.some THEN split_at(buf, self, m.val[1], m.val[2])
            ELSE [self |-> [self EXCEPT !.remainder = None],
                  ret |-> self.remainder,
                  panic |-> FALSE]
    ELSE [self |-> self, ret |-> None, panic |-> FALSE]

\* next() as if the remainder were one slot shared by all the splitters
next_sharing_remainder(buf, self, others) ==
    [r |-> StrSplit_next(buf, self),
     others |-> [k \in 1..Len(others) |->
                    [others[k] EXCEPT !.remainder = StrSplit_next(buf, self).self.remainder]]]

\* next(&mut self) among the other splitters over the same haystack: the
\* call has the one splitter it borrows and the haystack by shared reference
next_borrowing(buf, self, others) ==
    [r |-> StrSplit_next(buf, self), others |-> others]

\* until_char: the first item of a fresh splitter on c; ok is FALSE when
\* the expect() fails.
until_char(s, c) ==
    LET r == StrSplit_next(s, StrSplit_new(s, CharDelim(c)))
    IN  IF r.panic \/ ~r.ret.some THEN [ok |-> FALSE, val |-> <<>>]
        ELSE [ok |-> TRUE, val |-> view_str(s, r.ret.val)]

\* ---------------------------------------------------------------- state
VARIABLES
    haystack,    \* the bytes of the haystack
    remainder,   \* StrSplit.remainder: Option of a view into haystack
    delimiter,   \* StrSplit.delimiter
    emitted,     \* the views next() has returned in Some, in order
    last,        \* what the latest call of next() returned
    calls,       \* how many times next() was called
    panicked,    \* a call of next() panicked
    uc,          \* the latest call of until_char on the haystack
    tokens,      \* the tokens the haystack was joined from (SpecJoin)
    found,       \* per call of next() on Some remainder: that view and what
                 \* find_next returned for it
    peer         \* the other splitters over the same haystack (SpecPeer), each
                 \* with its items, last result, calls and panic flag

vars == <<haystack, remainder, delimiter, emitted, last, calls, panicked, uc, tokens, found,
          peer>>

Delimiters ==
    {StrDelim(str_bytes(p)) : p \in CpSeqs(MaxPatLen)} \cup {CharDelim(c) : c \in CodePoints}

NoCall == [called |-> FALSE]

Start(hay, d) ==
    /\ haystack = hay
    /\ remainder = StrSplit_new(hay, d).remainder
    /\ delimiter = StrSplit_new(hay, d).delimiter
    /\ emitted = <<>>
    /\ last = None
    /\ calls = 0
    /\ panicked = FALSE
    /\ uc = NoCall
    /\ found = <<>>

Init ==
    \E h \in CpSeqs(MaxLen), d \in Delimiters :
        /\ Start(str_bytes(h), d)
        /\ tokens = <<>>
        /\ peer = <<>>

\* what the delimiter can be on one call of next() with remainder s: itself,
\* or for a custom impl any answer with offsets up to one past the end of s
Answers(d, s) ==
    IF d.kind = "custom"
    THEN {CustomAnswering(None)}
         \cup {CustomAnswering(Some(<<a, b>>)) : a \in 0..(Len(s) + 1), b \in 0..(Len(s) + 1)}
    ELSE {d}

CallCap == IF delimiter.kind = "custom" THEN MaxCustomCalls ELSE MaxCalls

\* one call of next() on the splitter
Advance ==
    /\ ~panicked
    /\ calls < CallCap
    /\ \E d \in (IF remainder.some THEN Answers(delimiter, view_str(haystack, remainder.val))
                  ELSE {delimiter}) :
         LET b == next_borrowing(haystack, [remainder |-> remainder, delimiter |-> d],
                                 [k \in 1..Len(peer) |-> peer[k].self])
             r == b.r
         IN  /\ remainder' = r.self.remainder
             /\ peer' = [k \in 1..Len(peer) |-> [peer[k] EXCEPT !.self = b.others[k]]]
             /\ panicked' = r.panic
             /\ last' = r.ret
             /\ emitted' = IF r.ret.some THEN Append(emitted, r.ret.val) ELSE emitted
             /\ found' = IF remainder.some
                          THEN Append(found, [view |-> remainder.val,
                                              m |-> find_next(d, view_str(haystack, remainder.val))])
                          ELSE found
    /\ calls' = calls + 1
    /\ UNCHANGED <<haystack, delimiter, uc, tokens>>

\* one call of until_char on the haystack
UntilChar ==
    /\ ~panicked
    /\ ~uc.called
    /\ \E c \in CodePoints :
           uc' = [called |-> TRUE, c |-> c, res |-> until_char(haystack, c)]
    /\ UNCHANGED <<haystack, remainder, delimiter, emitted, last, calls, panicked, tokens, found,
                   peer>>

\* one call of next() on the other splitter over the haystack
AdvancePeer ==
    /\ Len(peer) = 1
    /\ ~peer[1].panicked
    /\ peer[1].calls < MaxCalls
    /\ LET b == next_borrowing(haystack, peer[1].self,
                               <<[remainder |-> remainder, delimiter |-> delimiter]>>)
           r == b.r
       IN  /\ peer' = <<[self |-> r.self,
                         emitted |-> IF r.ret.some THEN Append(peer[1].emitted, r.ret.val)
                                     ELSE peer[1].emitted,
                         last |-> r.ret,
                         calls |-> peer[1].calls + 1,
                         panicked |-> r.panic]>>
           /\ remainder' = b.others[1].remainder
    /\ UNCHANGED <<haystack, delimiter, emitted, last, calls, panicked, uc, tokens, found>>

Next == Advance \/ UntilChar

Spec == Init /\ [][Next]_vars

\* A haystack joined from tokens by one char, split on that char.
TokenLists(d) ==
    LET toks == UNION {[1..k -> CodePoints \ {d}] : k \in 0..MaxTokLen}
    IN  UNION {[1..n -> {str_bytes(x) : x \in toks}] : n \in 1..MaxToks}

RECURSIVE JoinBy(_, _)
JoinBy(parts, sep) ==
    IF parts = <<>> THEN <<>>
    ELSE IF Len(parts) = 1 THEN parts[1]
    ELSE parts[1] \o sep \o JoinBy(Tail(parts), sep)

InitJoin ==
    \E d \in CodePoints :
        \E toks \in TokenLists(d) :
            /\ Start(JoinBy(toks, encode_utf8(d)), CharDelim(d))
            /\ tokens = toks
            /\ peer = <<>>

SpecJoin == InitJoin /\ [][Next]_vars

\* A splitter with a caller's own Delimiter, which may break the contract.
InitCustom ==
    \E h \in CpSeqs(MaxCustomLen) :
        /\ Start(str_bytes(h), CustomDelim)
        /\ tokens = <<>>
        /\ peer = <<>>

SpecCustom == InitCustom /\ [][Advance]_vars

\* Two splitters over one haystack, their calls of next() interleaved.
PeerDelims ==
    {StrDelim(str_bytes(p)) : p \in CpSeqs(1)} \cup {CharDelim(c) : c \in CodePoints}

InitPeer ==
    \E h \in CpSeqs(MaxPeerLen), d1 \in PeerDelims, d2 \in PeerDelims :
        /\ Start(str_bytes(h), d1)
        /\ tokens = <<>>
        /\ peer = <<[self |-> StrSplit_new(str_bytes(h), d2), emitted |-> <<>>,
                     last |-> None, calls |-> 0, panicked |-> FALSE]>>

SpecPeer == InitPeer /\ [][Advance \/ AdvancePeer]_vars

\* ------------------------------------------------------------ properties
Exhausted == ~remainder.some

\* the delimiter as text
delim_bytes(d) == IF d.kind = "str" THEN d.pat ELSE encode_utf8(d.c)

\* the texts of the emitted items
Texts(vs) == [i \in 1..Len(vs) |-> view_str(haystack, vs[i])]

\* pat occurs in s at byte offset i
OccursAt(pat, s, i) ==
    i >= 0 /\ i + Len(pat) <= Len(s) /\ SubSeq(s, i + 1, i + Len(pat)) = pat

Occurs(pat, s) == \E i \in 0..Len(s) : OccursAt(pat, s, i)

\* the empty view at the end of the haystack
TailView == [off |-> Len(haystack), len |-> 0]

\* the splitter StrSplit::new(buf, d) after n calls of next()
RECURSIVE Run(_, _, _)
Run(buf, d, n) ==
    IF n = 0 THEN [self |-> StrSplit_new(buf, d), emitted |-> <<>>, last |-> None,
                   panicked |-> FALSE]
    ELSE LET p == Run(buf, d, n - 1)
             r == StrSplit_next(buf, p.self)
         IN  IF p.panicked THEN p
             ELSE [self |-> r.self,
                   emitted |-> IF r.ret.some THEN Append(p.emitted, r.ret.val) ELSE p.emitted,
                   last |-> r.ret,
                   panicked |-> r.panic]

\* the occurrences of pat a left-to-right scan of s finds from offset i on,
\* resuming right after each match; at most fuel of them
RECURSIVE ScanCount(_, _, _, _)
ScanCount(s, pat, i, fuel) ==
    LET hits == {j \in i..Len(s) : OccursAt(pat, s, j)}
    IN  IF fuel = 0 \/ hits = {} THEN 0
        ELSE LET j == CHOOSE x \in hits : \A y \in hits : x <= y
             IN  1 + ScanCount(s, pat, j + Len(pat), fuel - 1)

\* the scan of ScanCount finds, from offset i on, an occurrence of pat that
\* ends where s ends
RECURSIVE ScanEndsAtEnd(_, _, _, _)
ScanEndsAtEnd(s, pat, i, fuel) ==
    LET hits == {j \in i..Len(s) : OccursAt(pat, s, j)}
    IN  IF hits = {} THEN FALSE
        ELSE LET j == CHOOSE x \in hits : \A y \in hits : x <= y
             IN  \/ j + Len(pat) = Len(s)
                 \/ fuel > 0 /\ ScanEndsAtEnd(s, pat, j + Len(pat), fuel - 1)

\* C1: reconstruction law. At every point of the iteration the items emitted
\* so far, followed by the remaining view while there is one, joined with the
\* delimiter text between neighbours, are the haystack; so once the splitter
\* is exhausted the items s_1..s_n with the delimiter between them are H.
ReconstructionLaw ==
    /\ JoinBy(Texts(emitted)
                \o (IF remainder.some THEN <<view_str(haystack, remainder.val)>> ELSE <<>>),
              delim_bytes(delimiter)) = haystack
    /\ Exhausted => Len(emitted) >= 1

ReconstructionWitness ==
    /\ Exhausted
    /\ Len(emitted) = 3
    /\ Len(delim_bytes(delimiter)) = 2
    /\ \E i \in 1..Len(emitted) : emitted[i].len > 0

\* C2: trailing-delimiter case. When the haystack ends with an occurrence
\* of the delimiter (one the left-to-right scan finds), the empty view at the
\* haystack's end is emitted only as the last item, by the call that
\* exhausts the splitter, and so only once; the exhausted splitter's last
\* item is that view; and every later call returns None.
TrailingDelimiterEmptyLast ==
    ScanEndsAtEnd(haystack, delim_bytes(delimiter), 0, Len(haystack))
    => /\ \A i \in 1..Len(emitted) :
              emitted[i] = TailView => (Exhausted /\ i = Len(emitted))
       /\ Exhausted => (Len(emitted) >= 1 /\ emitted[Len(emitted)] = TailView)
       /\ (Exhausted /\ calls > Len(emitted)) => ~last.some

\* C3: split after join. A haystack joined from tokens free of the char d by
\* d, split on d: the items emitted are the tokens, in order, and the
\* splitter is exhausted after as many calls as there are tokens.
SplitAfterJoin ==
    tokens # <<>>
    => /\ Len(emitted) <= Len(tokens)
       /\ \A i \in 1..Len(emitted) : view_str(haystack, emitted[i]) = tokens[i]
       /\ calls >= Len(tokens) => (Exhausted /\ Len(emitted) = Len(tokens))
       /\ Exhausted => Len(emitted) = Len(tokens)

SplitAfterJoinWitness ==
    /\ Exhausted
    /\ Len(tokens) = 3
    /\ tokens[1] # <<>> /\ tokens[2] = <<>> /\ Len(tokens[3]) = 2
    /\ Texts(emitted) = tokens

\* C4: empty haystack. After the first call of next() on an empty haystack
\* exactly one item, the empty one, has been emitted and the splitter is
\* exhausted, whatever the delimiter.
EmptyHaystackOneItem ==
    (haystack = <<>> /\ calls >= 1)
    => (Len(emitted) = 1 /\ emitted[1].len = 0 /\ Exhausted)

\* C5: finiteness. Every call of next() before the exhausting one consumes a
\* delimiter match, so after more calls than the haystack has bytes the
\* splitter is exhausted, with one item per call up to and including the
\* exhausting one.
FiniteItems ==
    calls > Len(haystack) => (Exhausted /\ Len(emitted) <= Len(haystack) + 1)

\* C6: termination idempotence. From an exhausted splitter every step leaves
\* it exhausted and emits nothing, and a call of next() returns None.
TerminationIdempotence ==
    [][Exhausted => /\ ~remainder'.some
                    /\ emitted' = emitted
                    /\ calls' # calls => ~last'.some]_vars

TerminationWitness ==
    /\ Exhausted
    /\ calls >= Len(emitted) + 2
    /\ ~last.some
    /\ Len(emitted) >= 2

\* C7: no-delimiter case. When the delimiter does not occur in the haystack
\* the first call returns the whole haystack and exhausts the splitter, and
\* every later call returns None.
NoDelimiterCase ==
    (~Occurs(delim_bytes(delimiter), haystack) /\ calls >= 1)
    => /\ emitted = <<[off |-> 0, len |-> Len(haystack)]>>
       /\ Exhausted
       /\ calls = 1 => last = Some(emitted[1])
       /\ calls >= 2 => ~last.some

NoDelimiterWitness ==
    /\ ~Occurs(delim_bytes(delimiter), haystack)
    /\ Len(haystack) >= 3
    /\ calls >= 2
    /\ Len(emitted) = 1

\* C8: until_char(h, c) does not fail and returns the prefix of h before the
\* first occurrence of c, the whole of h when c does not occur.
UntilCharPrefix ==
    uc.called
    => /\ uc.res.ok
       /\ OccursAt(uc.res.val, haystack, 0)
       /\ ~Occurs(encode_utf8(uc.c), uc.res.val)
       /\ \/ uc.res.val = haystack
          \/ OccursAt(encode_utf8(uc.c), haystack, Len(uc.res.val))

UntilCharWitness ==
    /\ uc.called
    /\ uc.res.ok
    /\ Len(uc.res.val) >= 2
    /\ Len(uc.res.val) < Len(haystack)
    /\ len_utf8(uc.c) = 2

\* C9: matcher equivalence. The splitter on the char x is, after every
\* number of calls, where the splitter on the one-char pattern "x" is after
\* as many calls: the same items, the same remainder, the same last result.
MatcherEquivalence ==
    delimiter.kind = "char"
    => LET o == Run(haystack, StrDelim(encode_utf8(delimiter.c)), calls)
       IN  /\ ~panicked /\ ~o.panicked
           /\ emitted = o.emitted
           /\ remainder = o.self.remainder
           /\ last = o.last

MatcherEquivalenceWitness ==
    /\ delimiter.kind = "char"
    /\ len_utf8(delimiter.c) = 2
    /\ Exhausted
    /\ Len(emitted) >= 2
    /\ emitted[1].len > 0
    /\ emitted = Run(haystack, StrDelim(encode_utf8(delimiter.c)), calls).emitted

\* C10: segment count. The exhausted splitter has emitted one item more than
\* the left-to-right scan that resumes right after each match finds
\* occurrences of the delimiter.
SegmentCount ==
    Exhausted
    => Len(emitted) = 1 + ScanCount(haystack, delim_bytes(delimiter), 0, Len(haystack) + 1)

\* "aaa" split on "aa": one occurrence, two items
SegmentCountWitness ==
    /\ Exhausted
    /\ haystack = <<97, 97, 97>>
    /\ delimiter = StrDelim(<<97, 97>>)
    /\ Len(emitted) = 2

\* the byte offsets of s that lie on a codepoint boundary
AlignedOffsets(s) == {char_indices(s)[k][1] : k \in 1..Len(char_indices(s))} \cup {Len(s)}

\* the i-th recorded find_next result broke the contract by start > end
StartAfterEnd(i) == found[i].m.some /\ found[i].m.val[1] > found[i].m.val[2]

\* the i-th recorded find_next result has an offset off the codepoint
\* boundaries of its view (inside a codepoint, or past the view's end)
Misaligned(i) ==
    /\ found[i].m.some
    /\ \/ found[i].m.val[1] \notin AlignedOffsets(view_str(haystack, found[i].view))
       \/ found[i].m.val[2] \notin AlignedOffsets(view_str(haystack, found[i].view))

\* C11: contract violation start > end. A call of next() whose find_next
\* returns (start, end) with start > end panics: it is the last call, it
\* emits nothing and it leaves the remainder as it was.
StartAfterEndAborts ==
    \A i \in 1..Len(found) :
        StartAfterEnd(i)
        => (panicked /\ i = Len(found) /\ Len(emitted) < i /\ remainder = Some(found[i].view))

\* C12: contract violation misalignment. A call of next() whose find_next
\* returns an offset off the codepoint boundaries of the remaining view
\* panics: it is the last call, it emits nothing and leaves the remainder as
\* it was; and every emitted view and the remaining view start and end on
\* codepoint boundaries of the haystack.
MisalignedAborts ==
    /\ \A i \in 1..Len(found) :
           Misaligned(i)
           => (panicked /\ i = Len(found) /\ Len(emitted) = i - 1
               /\ remainder = Some(found[i].view))
    /\ \A i \in 1..Len(emitted) :
           /\ emitted[i].off \in AlignedOffsets(haystack)
           /\ emitted[i].off + emitted[i].len \in AlignedOffsets(haystack)
    /\ remainder.some
       => /\ remainder.val.off \in AlignedOffsets(haystack)
          /\ remainder.val.off + remainder.val.len \in AlignedOffsets(haystack)

\* a second call that answered with an offset inside a two-byte codepoint
MisalignedWitness ==
    /\ panicked
    /\ Len(found) = 2
    /\ Len(emitted) = 1
    /\ found[2].m.some
    /\ found[2].m.val[2] < found[2].view.len
    /\ found[2].m.val[2] \notin AlignedOffsets(view_str(haystack, found[2].view))
    /\ found[2].m.val[1] \in AlignedOffsets(view_str(haystack, found[2].view))

\* C13: forward-only cursor. A Some remainder ends where the haystack ends
\* and starts inside it, and a step that leaves the remainder Some leaves a
\* suffix of the view it had: the start never moves back, the end never moves.
ForwardOnlyCursor ==
    [][/\ remainder.some
          => /\ remainder.val.off >= 0 /\ remainder.val.len >= 0
             /\ remainder.val.off + remainder.val.len = Len(haystack)
       /\ remainder'.some
          => /\ remainder.some
             /\ remainder'.val.off >= remainder.val.off
             /\ remainder'.val.len >= 0
             /\ remainder'.val.off + remainder'.val.len
                  = remainder.val.off + remainder.val.len
             /\ remainder'.val.off + remainder'.val.len = Len(haystack')]_vars

ForwardOnlyWitness ==
    /\ remainder.some
    /\ remainder.val.off >= 3
    /\ remainder.val.len >= 1
    /\ Len(emitted) = 2
    /\ emitted[2].len >= 1

\* C14: matcher contract. Whatever find_next of the literal or the char
\* matcher returned for a view: None when the delimiter does not occur in the
\* view; otherwise (start, end) with start the offset of the earliest
\* occurrence, end = start + the delimiter's width in bytes, start <= end <=
\* the view's length, and both on codepoint boundaries of the view.
MatcherContract ==
    \A i \in 1..Len(found) :
        LET s == view_str(haystack, found[i].view)
            p == delim_bytes(delimiter)
            m == found[i].m
        IN  IF ~Occurs(p, s) THEN ~m.some
            ELSE /\ m.some
                 /\ OccursAt(p, s, m.val[1])
                 /\ \A j \in 0..(m.val[1] - 1) : ~OccursAt(p, s, j)
                 /\ m.val[2] = m.val[1] + Len(p)
                 /\ m.val[1] <= m.val[2] /\ m.val[2] <= Len(s)
                 /\ m.val[1] \in AlignedOffsets(s)
                 /\ m.val[2] \in AlignedOffsets(s)

\* U+00A9 (C2 A9) sought in a haystack that starts with U+00E9 (C3 A9): the
\* match is the later codepoint, and the last call found nothing
MatcherContractWitness ==
    /\ delimiter = CharDelim(169)
    /\ Len(haystack) >= 4
    /\ SubSeq(haystack, 1, 2) = <<195, 169>>
    /\ Len(found) = 2
    /\ found[1].m = Some(<<2, 4>>)
    /\ ~found[2].m.some

\* each splitter is where Run, the same splitter called alone, is after as
\* many calls
AsAlone ==
    /\ LET a == Run(haystack, delimiter, calls)
       IN  /\ remainder = a.self.remainder
           /\ emitted = a.emitted
           /\ last = a.last
           /\ panicked = a.panicked
    /\ \A k \in 1..Len(peer) :
           LET a == Run(haystack, peer[k].self.delimiter, peer[k].calls)
           IN  /\ peer[k].self = a.self
               /\ peer[k].emitted = a.emitted
               /\ peer[k].last = a.last
               /\ peer[k].panicked = a.panicked

EmptyPatternMatchesAtZero ==
    delimiter = StrDelim(<<>>)
    => \A i \in 1..Len(found) : found[i].m = Some(<<0, 0>>)

EmptyPatternWitness ==
    /\ delimiter = StrDelim(<<>>)
    /\ haystack = <<>>
    /\ Len(found) >= 2
    /\ found[1].view.len = 0

\* C17: delimiter-free segments. With a non-empty delimiter no emitted item,
\* the final one included, contains an occurrence of the delimiter.
DelimiterFreeSegments ==
    delim_bytes(delimiter) # <<>>
    => \A i \in 1..Len(emitted) :
           ~Occurs(delim_bytes(delimiter), view_str(haystack, emitted[i]))

DelimiterFreeWitness ==
    /\ Exhausted
    /\ delimiter.kind = "str"
    /\ Len(delimiter.pat) >= 2
    /\ Len(emitted) = 2
    /\ emitted[1].len >= 1 /\ emitted[2].len >= 1
    /\ \E i \in 1..(Len(delimiter.pat) - 1) :
           OccursAt(SubSeq(delimiter.pat, 1, i), view_str(haystack, emitted[2]), 0)

\* C18: contiguous in-order views. Every emitted item lies inside the
\* haystack; the first starts at offset 0; each later one starts at the end
\* of the match found by the call before; an item ends where the match of
\* its call starts, or at the haystack's end when its call found none, which
\* is the call that exhausts the splitter.
ContiguousViews ==
    /\ Len(found) = Len(emitted)
    /\ \A i \in 1..Len(emitted) :
           /\ emitted[i].off >= 0 /\ emitted[i].len >= 0
           /\ emitted[i].off + emitted[i].len <= Len(haystack)
           /\ IF i = 1 THEN emitted[i].off = 0
              ELSE /\ found[i - 1].m.some
                   /\ emitted[i].off = found[i - 1].view.off + found[i - 1].m.val[2]
           /\ IF found[i].m.some
              THEN /\ emitted[i].off + emitted[i].len
                        = found[i].view.off + found[i].m.val[1]
                   /\ found[i].m.val[1] <= found[i].m.val[2]
              ELSE /\ emitted[i].off + emitted[i].len = Len(haystack)
                   /\ i = Len(emitted)
                   /\ Exhausted
    /\ Exhausted => (Len(found) >= 1 /\ ~found[Len(found)].m.some)

ContiguousViewsWitness ==
    /\ Exhausted
    /\ delimiter.kind = "char"
    /\ len_utf8(delimiter.c) = 2
    /\ Len(emitted) = 3
    /\ emitted[1].len >= 1 /\ emitted[3].len >= 1

====
